---- MODULE Spec2Model ----
(***************************************************************************)
(* Loom: requirement lifecycle and traceability.                           *)
(* A model of src/src/store.py (LoomStore over two vector collections), of *)
(* the search-then-filter and drift compositions built on it, and of       *)
(* src/src/testspec.py (TestSpecStore over one JSON file).                 *)
(***************************************************************************)
EXTENDS Integers, Sequences, FiniteSets, TLC

\* requirements, implementations: the two collections, id -> stored record
\*   [embedding, metadata, document]
\* now: the wall clock read by datetime.now
\* lastOp: the last call made on the store: its name, the id it addressed,
\*   whether that id was stored before the call, what was stored under it
\*   (pre), the record passed in or, for a lookup, the value returned (arg),
\*   and for a call on a TestSpecStore object the name of the object (by)
\* specs_file: the text of .loom-specs.json, None while the file is absent
\* private_file: the lines of PRIVATE.md, None while the file is absent
\* handles: the TestSpecStore objects constructed so far, name -> object
\*   [specs, private_ids]
VARIABLES requirements, implementations, now, lastOp,
          specs_file, private_file, handles

vars == <<requirements, implementations, now, lastOp,
          specs_file, private_file, handles>>

\* the state of the vector store
storeVars == <<requirements, implementations>>

\* the state of the test-spec registry: its two files and its objects
testVars == <<specs_file, private_file, handles>>

(* ------------------------------ bounds --------------------------------- *)

\* the clock takes the values 1..MaxClock
MaxClock == 2
\* candidate counts n of a similarity query range over 1..MaxK
MaxK == 3
\* a satisfies list holds at most MaxLinks links
MaxLinks == 2

(* --------------------------- Python values ----------------------------- *)

\* Optional[T]: None is the empty tuple, a present value x is <<x>>
None == <<>>

Some(x) == <<x>>

\* Python truthiness of an Optional[str]: None and "" are falsy
Truthy(v) == v # None /\ v[1] # ""

\* datetime.now(timezone.utc).isoformat() at clock value t
isoformat(t) == "T" \o ToString(t)

Min(a, b) == IF a <= b THEN a ELSE b

(* ----------------------------- data model ------------------------------ *)

ReqIds == {"R1", "R2"}

Domains == {"ui"}

Values == {"Dashboard shows status", "Dashboard shows status and agents"}

\* embeddings: vectors of one fixed dimensionality
Vectors == {<<0>>, <<1>>}

\* dataclass Requirement
Requirement(id, domain, value, timestamp, superseded_at) ==
    [id |-> id, domain |-> domain, value |-> value,
     timestamp |-> timestamp, superseded_at |-> superseded_at,
     source_msg_id |-> "msg-1", source_session |-> "test-session"]

\* Requirement.to_dict: asdict, one key per field
Requirement_to_dict(req) ==
    [k \in {"id", "domain", "value", "source_msg_id", "source_session",
            "timestamp", "superseded_at"} |->
        CASE k = "id" -> Some(req.id)
          [] k = "domain" -> Some(req.domain)
          [] k = "value" -> Some(req.value)
          [] k = "source_msg_id" -> Some(req.source_msg_id)
          [] k = "source_session" -> Some(req.source_session)
          [] k = "timestamp" -> Some(req.timestamp)
          [] OTHER -> req.superseded_at]

\* Requirement.from_dict: cls(**d)
Requirement_from_dict(d) ==
    [id |-> d["id"][1], domain |-> d["domain"][1], value |-> d["value"][1],
     timestamp |-> d["timestamp"][1], superseded_at |-> d["superseded_at"],
     source_msg_id |-> d["source_msg_id"][1],
     source_session |-> d["source_session"][1]]

ImplFiles == {"src/dashboard.py"}

ImplLines == {"1-50", "51-90"}

Contents == {"def render_dashboard(): pass", "def render(): return 1"}

ReqVersions == {"v1", "v2"}

\* one satisfies entry {"req_id": ..., "req_version": ...}
Link(req_id, req_version) == [req_id |-> req_id, req_version |-> req_version]

\* dataclass Implementation
Implementation(id, file, lines, content, content_hash, timestamp, satisfies) ==
    [id |-> id, file |-> file, lines |-> lines, content |-> content,
     content_hash |-> content_hash, timestamp |-> timestamp,
     satisfies |-> satisfies]

\* Implementation.to_dict: asdict, one key per field
Implementation_to_dict(impl) ==
    [id |-> impl.id, file |-> impl.file, lines |-> impl.lines,
     content |-> impl.content, content_hash |-> impl.content_hash,
     timestamp |-> impl.timestamp, satisfies |-> impl.satisfies]

\* Implementation.from_dict: cls(**d)
Implementation_from_dict(d) ==
    Implementation(d.id, d.file, d.lines, d.content, d.content_hash,
                   d.timestamp, d.satisfies)

\* hashlib.sha256(text.encode()).hexdigest(): a digest named by its input
sha256_hexdigest(text) == "sha256(" \o text \o ")"

\* generate_impl_id: the first 16 hex digits of the digest of "file:lines"
generate_impl_id(file, lines) ==
    "16:" \o sha256_hexdigest(file \o ":" \o lines)

\* generate_content_hash
generate_content_hash(content) == sha256_hexdigest(content)

RECURSIVE json_dumps_from(_, _)
json_dumps_from(satisfies, i) ==
    IF i > Len(satisfies) THEN <<>>
    ELSE (IF i > 1 THEN <<",">> ELSE <<>>)
         \o <<"{", "req_id", ":", satisfies[i].req_id, ",",
              "req_version", ":", satisfies[i].req_version, "}">>
         \o json_dumps_from(satisfies, i + 1)

\* json.dumps of a satisfies list: the text as a sequence of JSON tokens
json_dumps(satisfies) == <<"[">> \o json_dumps_from(satisfies, 1) \o <<"]">>

RECURSIVE json_loads_from(_, _)
json_loads_from(text, i) ==
    IF text[i] = "]" THEN <<>>
    ELSE LET j == IF text[i] = "," THEN i + 1 ELSE i
             obj == [k \in {text[j + 1], text[j + 5]} |->
                        IF k = text[j + 1] THEN text[j + 3] ELSE text[j + 7]]
         IN  <<obj>> \o json_loads_from(text, j + 9)

\* json.loads returning the objects last to first
json_loads_reversed(text) ==
    LET l == json_loads_from(text, 2)
    IN  [i \in 1..Len(l) |-> l[Len(l) + 1 - i]]

\* json.loads of the stored text: the list of objects it spells
json_loads(text) == json_loads_from(text, 2)

(* ----------------------- vector collection adapter --------------------- *)

\* collection.upsert(ids=[id], embeddings, metadatas, documents): the record
\* under id is replaced whole, every other record is kept
upsert(coll, id, embedding, metadata, document) ==
    [x \in (DOMAIN coll) \cup {id} |->
        IF x = id
        THEN [embedding |-> embedding, metadata |-> metadata,
              document |-> document]
        ELSE coll[x]]

\* collection.get(ids=[id]): the ids found, at most one
get_ids(coll, id) == IF id \in DOMAIN coll THEN <<id>> ELSE <<>>

RECURSIVE SumSq(_, _, _)
SumSq(a, b, i) ==
    IF i > Len(a) THEN 0
    ELSE (a[i] - b[i]) * (a[i] - b[i]) + SumSq(a, b, i + 1)

\* squared L2 distance, lower = more similar
Distance(a, b) == SumSq(a, b, 1)

\* collection.query(query_embeddings=[q], n_results=n): the n nearest ids in
\* ascending distance; the order among equal distances is the adapter's and
\* is left open, so this is the set of every ranking the adapter may return
query(coll, q, n) ==
    LET ids == DOMAIN coll
        m == Min(n, Cardinality(ids))
        d(x) == Distance(coll[x].embedding, q)
    IN  { s \in [1..m -> ids] :
            /\ \A i, j \in 1..m : i < j => s[i] # s[j] /\ d(s[i]) <= d(s[j])
            /\ \A x \in ids \ {s[i] : i \in 1..m} :
                  \A i \in 1..m : d(s[i]) <= d(x) }

\* collection.get(): every stored id once, in the adapter's order (left open)
get_all(coll) ==
    LET ids == DOMAIN coll
        m == Cardinality(ids)
    IN  { s \in [1..m -> ids] : \A i, j \in 1..m : i < j => s[i] # s[j] }

(* --------------------------- requirement registry ---------------------- *)

\* add_requirement as an insert: an id already stored keeps its record
add_requirement_insert(reqs, req, embedding) ==
    IF req.id \in DOMAIN reqs THEN reqs
    ELSE upsert(reqs, req.id, embedding, Requirement_to_dict(req), req.value)

\* LoomStore.add_requirement: the requirement collection after the call
add_requirement(reqs, req, embedding) ==
    upsert(reqs, req.id, embedding, Requirement_to_dict(req), req.value)

\* get_requirement rebuilding the record from the id and the document alone,
\* so that superseded_at takes the dataclass default
get_requirement_defaulted(reqs, req_id) ==
    IF get_ids(reqs, req_id) # <<>>
    THEN Some(Requirement(req_id, "ui", reqs[req_id].document,
                          reqs[req_id].metadata["timestamp"][1], None))
    ELSE None

\* LoomStore.get_requirement
get_requirement(reqs, req_id) ==
    IF get_ids(reqs, req_id) # <<>>
    THEN Some(Requirement_from_dict(reqs[req_id].metadata))
    ELSE None

\* get_current_requirement without the superseded_at test
get_current_requirement_unchecked(reqs, req_id) ==
    IF get_ids(reqs, req_id) # <<>>
    THEN Some(Requirement_from_dict(reqs[req_id].metadata))
    ELSE None

\* LoomStore.get_current_requirement
get_current_requirement(reqs, req_id) ==
    IF get_ids(reqs, req_id) # <<>>
    THEN LET req == Requirement_from_dict(reqs[req_id].metadata)
         IN  IF req.superseded_at = None THEN Some(req) ELSE None
    ELSE None

\* supersede_requirement retiring the record: an active requirement is
\* deleted from the collection instead of being marked
supersede_requirement_removing(reqs, req_id, t) ==
    LET got == get_requirement(reqs, req_id)
    IN  IF got # None /\ ~Truthy(got[1].superseded_at)
        THEN [x \in (DOMAIN reqs) \ {req_id} |-> reqs[x]]
        ELSE reqs

\* supersede_requirement re-upserting with a zero vector instead of the
\* embedding fetched back from the collection
supersede_requirement_reembedded(reqs, req_id, t) ==
    LET got == get_requirement(reqs, req_id)
    IN  IF got # None /\ ~Truthy(got[1].superseded_at)
        THEN upsert(reqs, req_id, <<0>>,
                    Requirement_to_dict(
                        [got[1] EXCEPT !.superseded_at = Some(isoformat(t))]),
                    got[1].value)
        ELSE reqs

\* LoomStore.supersede_requirement at clock value t: the requirement
\* collection after the call
supersede_requirement(reqs, req_id, t) ==
    LET got == get_requirement(reqs, req_id)
    IN  IF got # None /\ ~Truthy(got[1].superseded_at)
        THEN LET req == [got[1] EXCEPT !.superseded_at = Some(isoformat(t))]
                 embeddings == IF req_id \in DOMAIN reqs
                               THEN <<reqs[req_id].embedding>> ELSE <<>>
             IN  IF Len(embeddings) > 0
                 THEN add_requirement(reqs, req, embeddings[1])
                 ELSE reqs
        ELSE reqs

\* search_requirements ranking the active requirements only
search_requirements_active(reqs, query_embedding, n) ==
    LET active == [id \in {x \in DOMAIN reqs :
                               reqs[x].metadata["superseded_at"] = None}
                     |-> reqs[id]]
    IN  { [i \in 1..Len(s) |->
              [id |-> s[i],
               requirement |-> Requirement_from_dict(reqs[s[i]].metadata),
               distance |-> Distance(reqs[s[i]].embedding, query_embedding)]] :
          s \in query(active, query_embedding, n) }

\* LoomStore.search_requirements: every result list the adapter may produce
search_requirements(reqs, query_embedding, n) ==
    { [i \in 1..Len(s) |->
          [id |-> s[i],
           requirement |-> Requirement_from_dict(reqs[s[i]].metadata),
           distance |-> Distance(reqs[s[i]].embedding, query_embedding)]] :
      s \in query(reqs, query_embedding, n) }

\* list_requirements filtering by truthiness (not r.superseded_at)
list_requirements_truthy(reqs, include_superseded) ==
    { LET all == [i \in 1..Len(s) |->
                     Requirement_from_dict(reqs[s[i]].metadata)]
      IN  IF ~include_superseded
          THEN SelectSeq(all, LAMBDA r : ~Truthy(r.superseded_at))
          ELSE all :
      s \in get_all(reqs) }

\* LoomStore.list_requirements: every result list the adapter may produce
list_requirements(reqs, include_superseded) ==
    { LET all == [i \in 1..Len(s) |-> Requirement_from_dict(reqs[s[i]].metadata)]
      IN  IF ~include_superseded
          THEN SelectSeq(all, LAMBDA r : r.superseded_at = None)
          ELSE all :
      s \in get_all(reqs) }

(* ------------------------- implementation registry --------------------- *)

\* add_implementation through collection.add: an id already stored is kept
add_implementation_insert(impls, impl, embedding) ==
    IF impl.id \in DOMAIN impls THEN impls
    ELSE upsert(impls, impl.id, embedding,
                [Implementation_to_dict(impl) EXCEPT
                    !.satisfies = json_dumps(impl.satisfies)],
                impl.content)

\* LoomStore.add_implementation: the implementation collection after the call
add_implementation(impls, impl, embedding) ==
    upsert(impls, impl.id, embedding,
           [Implementation_to_dict(impl) EXCEPT
               !.satisfies = json_dumps(impl.satisfies)],
           impl.content)

\* LoomStore.get_implementation
get_implementation(impls, impl_id) ==
    IF get_ids(impls, impl_id) # <<>>
    THEN LET meta == impls[impl_id].metadata
         IN  Some(Implementation_from_dict(
                 [meta EXCEPT !.satisfies = json_loads(meta.satisfies)]))
    ELSE None

\* LoomStore.search_implementations: one result list per ranking the
\* adapter may return
search_implementations(impls, query_embedding, n) ==
    { [i \in 1..Len(s) |->
          LET meta == impls[s[i]].metadata
          IN  [id |-> s[i],
               implementation |->
                   Implementation_from_dict(
                       [meta EXCEPT !.satisfies = json_loads(meta.satisfies)]),
               distance |-> Distance(impls[s[i]].embedding, query_embedding)]] :
      s \in query(impls, query_embedding, n) }

RECURSIVE per_link_from(_, _, _)
per_link_from(all, req_id, i) ==
    IF i > Len(all) THEN <<>>
    ELSE SelectSeq([j \in 1..Len(all[i].satisfies) |->
                       [impl |-> all[i], link |-> all[i].satisfies[j]]],
                   LAMBDA e : e.link.req_id = req_id)
         \o per_link_from(all, req_id, i + 1)

\* get_implementations_for_requirement appending inside the loop over the
\* links: one entry per matching link
get_implementations_for_requirement_per_link(impls, req_id) ==
    { LET all == [i \in 1..Len(s) |->
                     get_implementation(impls, s[i])[1]]
          hits == per_link_from(all, req_id, 1)
      IN  [i \in 1..Len(hits) |-> hits[i].impl] :
      s \in get_all(impls) }

\* LoomStore.get_implementations_for_requirement: a scan of collection.get(),
\* keeping each implementation with at least one link to req_id; one list
\* per order the adapter may return
get_implementations_for_requirement(impls, req_id) ==
    { LET all == [i \in 1..Len(s) |->
                     LET meta == impls[s[i]].metadata
                     IN  Implementation_from_dict(
                             [meta EXCEPT
                                 !.satisfies = json_loads(meta.satisfies)])]
      IN  SelectSeq(all, LAMBDA impl :
                \E j \in 1..Len(impl.satisfies) :
                    impl.satisfies[j]["req_id"] = req_id) :
      s \in get_all(impls) }

(* --------------------------- traceability engine ----------------------- *)

\* drift check of one implementation: the positions of its satisfies list
\* whose requirement is missing or has a non-null superseded_at, and whether
\* there is any; None when the implementation is not stored
drift_check(reqs, impls, impl_id) ==
    LET got == get_implementation(impls, impl_id)
    IN  IF got = None THEN None
        ELSE LET satisfies == got[1].satisfies
                 links == {i \in 1..Len(satisfies) :
                             LET linked_req ==
                                     get_requirement(reqs, satisfies[i].req_id)
                             IN  \/ linked_req = None
                                 \/ linked_req[1].superseded_at # None}
             IN  Some([links |-> links, drifted |-> links # {}])


\* auto-detect without the filter: the raw search results
auto_detect_unfiltered(reqs, vector, n) ==
    search_requirements(reqs, vector, n)

\* auto-detect: search_requirements(vector, n), then keep the results whose
\* requirement has superseded_at None, in rank order; one filtered list per
\* result list the adapter may produce
auto_detect(reqs, vector, n) ==
    { SelectSeq(results, LAMBDA r : r.requirement.superseded_at = None) :
      results \in search_requirements(reqs, vector, n) }

(* --------------------------- test-spec registry ------------------------ *)

SpecReqIds == {"REQ-1", "REQ-2"}

Descriptions == {"Status is visible", "Status and agents are visible"}

\* dataclass TestSpec; steps, expected, automated and test_file keep one value
TestSpec(req_id, description, last_verified, private) ==
    [req_id |-> req_id, description |-> description,
     last_verified |-> last_verified, private |-> private,
     steps |-> <<"open the dashboard">>, expected |-> "",
     automated |-> FALSE, test_file |-> None]

\* JSON values as json.dumps writes them
JsonString(s) == <<"string", s>>

JsonNull == <<"null">>

JsonBool(b) == IF b THEN <<"true">> ELSE <<"false">>

JsonArray(l) == <<"array", [i \in 1..Len(l) |-> JsonString(l[i])]>>

JsonOptional(v) == IF v = None THEN JsonNull ELSE JsonString(v[1])

\* TestSpec.to_dict as json.dumps writes it: one JSON value per field
TestSpec_to_dict(spec) ==
    [req_id |-> JsonString(spec.req_id),
     description |-> JsonString(spec.description),
     last_verified |-> JsonOptional(spec.last_verified),
     private |-> JsonBool(spec.private),
     steps |-> JsonArray(spec.steps),
     expected |-> JsonString(spec.expected),
     automated |-> JsonBool(spec.automated),
     test_file |-> JsonOptional(spec.test_file)]

\* TestSpec.from_dict of an object json.loads has read: cls(**d)
TestSpec_from_dict(d) ==
    [req_id |-> d.req_id[2], description |-> d.description[2],
     last_verified |-> IF d.last_verified = JsonNull THEN None
                       ELSE Some(d.last_verified[2]),
     private |-> (d.private = <<"true">>),
     steps |-> [i \in 1..Len(d.steps[2]) |-> d.steps[2][i][2]],
     expected |-> d.expected[2],
     automated |-> (d.automated = <<"true">>),
     test_file |-> IF d.test_file = JsonNull THEN None
                   ELSE Some(d.test_file[2])]

\* a Python dict (and a JSON object): its items in insertion order
dict_has(d, key) == \E i \in 1..Len(d) : d[i].key = key

\* d.get(key)
dict_get(d, key) ==
    IF dict_has(d, key)
    THEN Some(d[CHOOSE i \in 1..Len(d) : d[i].key = key].value)
    ELSE None

\* d[key] = value: a stored key keeps its place, a new key goes last
dict_set(d, key, value) ==
    IF dict_has(d, key)
    THEN [i \in 1..Len(d) |->
             IF d[i].key = key THEN [value |-> value, key |-> key] ELSE d[i]]
    ELSE Append(d, [value |-> value, key |-> key])

\* list(d.values())
dict_values(d) == [i \in 1..Len(d) |-> d[i].value]

\* a line of PRIVATE.md after strip(): a bullet ("- ", "* ", "# " or none)
\* and the first word after it, spelled head, tail, punct
PrivateLine(bullet, head, tail, punct) ==
    [bullet |-> bullet, head |-> head, tail |-> tail, punct |-> punct]

\* word.rstrip(':,')
rstrip(line) ==
    line.head \o line.tail
      \o (IF line.punct \in {":", ",", ":,", ",:"} THEN "" ELSE line.punct)

RECURSIVE load_private_from(_, _)
load_private_from(lines, i) ==
    IF i > Len(lines) THEN {}
    ELSE LET line == lines[i]
         IN  (IF line.bullet \in {"- ", "* "} /\ line.head = "REQ-"
              THEN {rstrip(line)}
              ELSE IF line.bullet = "" /\ line.head = "REQ-"
              THEN {rstrip(line)}
              ELSE {})
             \cup load_private_from(lines, i + 1)

\* TestSpecStore._load_private: the ids of the lines that start with
\* "- REQ-", "* REQ-" or "REQ-"
load_private(lines) == load_private_from(lines, 1)

\* the contents PRIVATE.md may have
PrivateFiles ==
    { None,
      Some(<<PrivateLine("# ", "Private", " Requirements", ""),
             PrivateLine("- ", "REQ-", "1", ":")>>),
      Some(<<PrivateLine("* ", "REQ-", "2", ","),
             PrivateLine("", "REQ-", "1", "")>>),
      Some(<<PrivateLine("- ", "req-", "1", ""),
             PrivateLine("# ", "REQ-", "2", "")>>),
      Some(<<PrivateLine("", "REQ-", "2", ".")>>) }

\* _save leaving the specs flagged private out of the file
save_public(self) ==
    LET public == SelectSeq(self.specs, LAMBDA item : ~item.value.private)
    IN  Some([i \in 1..Len(public) |->
                 [value |-> TestSpec_to_dict(public[i].value),
                  key |-> public[i].key]])

\* TestSpecStore._save: the JSON text written to the specs file
save(self) ==
    Some([i \in 1..Len(self.specs) |->
             [value |-> TestSpec_to_dict(self.specs[i].value),
              key |-> self.specs[i].key]])

\* the specs part of TestSpecStore._load
load(file) ==
    IF file # None
    THEN [i \in 1..Len(file[1]) |->
             [value |-> TestSpec_from_dict(file[1][i].value),
              key |-> file[1][i].key]]
    ELSE <<>>

\* TestSpecStore.__init__: the object built from the two files
TestSpecStore_init(file, private) ==
    [specs |-> load(file),
     private_ids |-> IF private # None THEN load_private(private[1]) ELSE {}]

\* add_spec keeping the spec already stored under the req_id
add_spec_setdefault(self, spec) ==
    IF dict_has(self.specs, spec.req_id) THEN self
    ELSE [self EXCEPT !.specs = dict_set(self.specs, spec.req_id, spec)]

\* add_spec writing the annotation into the record: a spec whose req_id is
\* in the private-id set is stored with private = true
add_spec_merging(self, spec) ==
    [self EXCEPT !.specs =
        dict_set(self.specs, spec.req_id,
                 [spec EXCEPT !.private =
                     spec.private \/ spec.req_id \in self.private_ids])]

\* TestSpecStore.add_spec: the object after the call
add_spec(self, spec) ==
    [self EXCEPT !.specs = dict_set(self.specs, spec.req_id, spec)]

\* get_spec returning an empty spec for a req_id that holds none
get_spec_placeholder(self, req_id) ==
    IF dict_has(self.specs, req_id) THEN dict_get(self.specs, req_id)
    ELSE Some(TestSpec(req_id, "", None, FALSE))

\* TestSpecStore.get_spec
get_spec(self, req_id) == dict_get(self.specs, req_id)

\* list_specs filtering on the spec's own private flag alone
list_specs_flag_only(self, include_private) ==
    LET specs == dict_values(self.specs)
    IN  IF ~include_private
        THEN SelectSeq(specs, LAMBDA sp : ~sp.private)
        ELSE specs

\* TestSpecStore.list_specs
list_specs(self, include_private) ==
    LET specs == dict_values(self.specs)
    IN  IF ~include_private
        THEN SelectSeq(specs, LAMBDA sp :
                 sp.req_id \notin self.private_ids /\ ~sp.private)
        ELSE specs

\* is_private letting a stored spec decide alone
is_private_spec_first(self, req_id) ==
    LET spec == dict_get(self.specs, req_id)
    IN  IF spec # None THEN spec[1].private
        ELSE req_id \in self.private_ids

\* TestSpecStore.is_private
is_private(self, req_id) ==
    IF req_id \in self.private_ids THEN TRUE
    ELSE LET spec == dict_get(self.specs, req_id)
         IN  IF spec # None THEN spec[1].private ELSE FALSE

\* TestSpecStore.mark_verified: the object after the call
mark_verified(self, req_id, t) ==
    IF dict_has(self.specs, req_id)
    THEN [self EXCEPT !.specs =
             dict_set(self.specs, req_id,
                      [dict_get(self.specs, req_id)[1] EXCEPT
                          !.last_verified = Some(isoformat(t))])]
    ELSE self

(* ------------------------------ operations ----------------------------- *)

\* superseded_at values a caller can pass to add_requirement at time t
SupersededAtInputs(t) ==
    {None, Some("")} \cup {Some(isoformat(u)) : u \in 1..t}

Init ==
    /\ requirements = <<>>
    /\ implementations = <<>>
    /\ now = 1
    /\ lastOp = [id |-> "", op |-> "init", existed |-> FALSE, pre |-> None,
                arg |-> None, by |-> ""]
    /\ specs_file = None
    /\ private_file = None
    /\ handles = <<>>

\* the wall clock advances between calls
Tick ==
    /\ now < MaxClock
    /\ now' = now + 1
    /\ lastOp' = [id |-> "", op |-> "tick", existed |-> FALSE, pre |-> None,
                arg |-> None, by |-> ""]
    /\ UNCHANGED <<storeVars, testVars>>

AddRequirement(req, embedding) ==
    /\ requirements' = add_requirement(requirements, req, embedding)
    /\ lastOp' = [id |-> req.id, op |-> "add_requirement",
                  existed |-> req.id \in DOMAIN requirements,
                  pre |-> IF req.id \in DOMAIN requirements
                          THEN Some(requirements[req.id].document)
                          ELSE None,
                  arg |-> Some(req), by |-> ""]
    /\ UNCHANGED <<implementations, now, testVars>>

\* supersede_requirement writing the drift into the implementations too:
\* the links to req_id are dropped from every stored satisfies text
SupersedeRequirement_unlinking(req_id) ==
    /\ requirements' = supersede_requirement(requirements, req_id, now)
    /\ implementations' =
          [id \in DOMAIN implementations |->
              [implementations[id] EXCEPT !.metadata.satisfies =
                  json_dumps(SelectSeq(json_loads(@),
                                       LAMBDA l : l["req_id"] # req_id))]]
    /\ lastOp' = [id |-> req_id, op |-> "supersede_requirement",
                  existed |-> req_id \in DOMAIN requirements,
                  pre |-> IF req_id \in DOMAIN requirements
                          THEN Some(requirements[req_id]) ELSE None,
                  arg |-> None, by |-> ""]
    /\ UNCHANGED <<now, testVars>>

SupersedeRequirement(req_id) ==
    /\ requirements' = supersede_requirement(requirements, req_id, now)
    /\ lastOp' = [id |-> req_id, op |-> "supersede_requirement",
                  existed |-> req_id \in DOMAIN requirements,
                  pre |-> IF req_id \in DOMAIN requirements
                          THEN Some(requirements[req_id]) ELSE None,
                  arg |-> None, by |-> ""]
    /\ UNCHANGED <<implementations, now, testVars>>

\* add_implementation storing a placeholder requirement for every link whose
\* req_id is not stored
AddImplementation_placeholder(impl, embedding) ==
    /\ implementations' = add_implementation(implementations, impl, embedding)
    /\ requirements' =
          [r \in (DOMAIN requirements)
                   \cup {impl.satisfies[i].req_id : i \in 1..Len(impl.satisfies)}
             |-> IF r \in DOMAIN requirements THEN requirements[r]
                 ELSE [embedding |-> embedding,
                       metadata |-> Requirement_to_dict(
                           Requirement(r, "ui", "", isoformat(now), None)),
                       document |-> ""]]
    /\ lastOp' = [id |-> impl.id, op |-> "add_implementation",
                  existed |-> impl.id \in DOMAIN implementations,
                  pre |-> IF impl.id \in DOMAIN implementations
                          THEN Some(implementations[impl.id].document)
                          ELSE None,
                  arg |-> Some(impl), by |-> ""]
    /\ UNCHANGED <<now, testVars>>

AddImplementation(impl, embedding) ==
    /\ implementations' = add_implementation(implementations, impl, embedding)
    /\ lastOp' = [id |-> impl.id, op |-> "add_implementation",
                  existed |-> impl.id \in DOMAIN implementations,
                  pre |-> IF impl.id \in DOMAIN implementations
                          THEN Some(implementations[impl.id].document)
                          ELSE None,
                  arg |-> Some(impl), by |-> ""]
    /\ UNCHANGED <<requirements, now, testVars>>

AddRequirementAny ==
    \E id \in ReqIds, dom \in Domains, val \in Values, e \in Vectors,
       sup \in SupersededAtInputs(now) :
        AddRequirement(Requirement(id, dom, val, isoformat(now), sup), e)

SupersedeAny == \E id \in ReqIds : SupersedeRequirement(id)

Next == AddRequirementAny \/ SupersedeAny \/ Tick

Spec == Init /\ [][Next]_vars

\* the links a caller records: each requirement at the version it was read
Links == {Link("R1", "v1"), Link("R2", "v2")}

\* satisfies lists of at most MaxLinks links
SatisfiesLists == UNION { [1..n -> Links] : n \in 0..MaxLinks }

\* a requirement as the extract step creates it, or re-stored by a caller
TraceAddRequirement ==
    \E id \in ReqIds, sup \in {None, Some(""), Some(isoformat(now))} :
        AddRequirement(
            Requirement(id, "ui", "Dashboard shows status", isoformat(1), sup),
            <<0>>)

\* link: the implementation id is generated from the location
TraceLink ==
    \E file \in ImplFiles, lines \in ImplLines, content \in Contents,
       satisfies \in SatisfiesLists :
        AddImplementation(
            Implementation(generate_impl_id(file, lines), file, lines, content,
                           generate_content_hash(content), isoformat(now),
                           satisfies),
            <<0>>)

NextTrace == TraceAddRequirement \/ SupersedeAny \/ TraceLink

SpecTrace == Init /\ [][NextTrace]_vars

(* ----------------------- test-spec registry calls ---------------------- *)

\* the TestSpecStore objects of one process
Handles == {"h1"}

\* last_verified values a caller can pass in a TestSpec at time t
LastVerifiedInputs(t) == {None} \cup {Some(isoformat(u)) : u \in 1..t}

\* PRIVATE.md is written by hand, here before a store object reads it
EditPrivateFile(content) ==
    /\ handles = <<>>
    /\ private_file' = content
    /\ lastOp' = [id |-> "", op |-> "edit_private_file", existed |-> FALSE,
                  pre |-> None, arg |-> None, by |-> ""]
    /\ UNCHANGED <<storeVars, now, specs_file, handles>>

\* TestSpecStore(project_dir): a new object under the name h
OpenStore(h) ==
    /\ handles' = [x \in (DOMAIN handles) \cup {h} |->
                      IF x = h THEN TestSpecStore_init(specs_file, private_file)
                      ELSE handles[x]]
    /\ lastOp' = [id |-> h, op |-> "open", existed |-> h \in DOMAIN handles,
                  pre |-> None, arg |-> None, by |-> h]
    /\ UNCHANGED <<storeVars, now, specs_file, private_file>>

\* add_spec merging on write: the file written holds the specs of the file
\* as it is on disk with the new spec put in, the object is as in add_spec
AddSpec_merging(h, spec) ==
    /\ h \in DOMAIN handles
    /\ handles' = [handles EXCEPT ![h] = add_spec(handles[h], spec)]
    /\ specs_file' = save([specs |-> dict_set(load(specs_file), spec.req_id,
                                              spec),
                           private_ids |-> handles[h].private_ids])
    /\ lastOp' = [id |-> spec.req_id, op |-> "add_spec",
                  existed |-> dict_has(handles[h].specs, spec.req_id),
                  pre |-> IF dict_has(handles[h].specs, spec.req_id)
                          THEN Some(get_spec(handles[h], spec.req_id)[1]
                                      .description)
                          ELSE None,
                  arg |-> Some(spec), by |-> h]
    /\ UNCHANGED <<storeVars, now, private_file>>

AddSpec(h, spec) ==
    /\ h \in DOMAIN handles
    /\ LET self == add_spec(handles[h], spec)
       IN  /\ handles' = [handles EXCEPT ![h] = self]
           /\ specs_file' = save(self)
    /\ lastOp' = [id |-> spec.req_id, op |-> "add_spec",
                  existed |-> dict_has(handles[h].specs, spec.req_id),
                  pre |-> IF dict_has(handles[h].specs, spec.req_id)
                          THEN Some(get_spec(handles[h], spec.req_id)[1]
                                      .description)
                          ELSE None,
                  arg |-> Some(spec), by |-> h]
    /\ UNCHANGED <<storeVars, now, private_file>>

MarkVerified(h, req_id) ==
    /\ h \in DOMAIN handles
    /\ LET self == mark_verified(handles[h], req_id, now)
       IN  /\ handles' = [handles EXCEPT ![h] = self]
           /\ specs_file' = IF dict_has(handles[h].specs, req_id)
                            THEN save(self) ELSE specs_file
    /\ lastOp' = [id |-> req_id, op |-> "mark_verified",
                  existed |-> dict_has(handles[h].specs, req_id),
                  pre |-> None, arg |-> None, by |-> h]
    /\ UNCHANGED <<storeVars, now, private_file>>

EditPrivateFileAny == \E content \in PrivateFiles : EditPrivateFile(content)

OpenStoreAny == \E h \in Handles : OpenStore(h)

AddSpecAny ==
    \E h \in Handles, id \in SpecReqIds, d \in Descriptions,
       lv \in LastVerifiedInputs(now), p \in BOOLEAN :
        AddSpec(h, TestSpec(id, d, lv, p))

MarkVerifiedAny == \E h \in Handles, id \in SpecReqIds : MarkVerified(h, id)

NextTest ==
    EditPrivateFileAny \/ OpenStoreAny \/ AddSpecAny \/ MarkVerifiedAny \/ Tick

SpecTest == Init /\ [][NextTest]_vars

(* ------------------------------- lookups ------------------------------- *)

\* a lookup: the call is recorded with the value it returned; the code of
\* the lookup writes to no collection and to no file
Lookup(op, id, existed, result) ==
    /\ lastOp' = [id |-> id, op |-> op, existed |-> existed, pre |-> None,
                  arg |-> result, by |-> ""]
    /\ UNCHANGED <<storeVars, now, testVars>>

GetRequirement(req_id) ==
    Lookup("get_requirement", req_id, req_id \in DOMAIN requirements,
           get_requirement(requirements, req_id))

GetCurrentRequirement(req_id) ==
    Lookup("get_current_requirement", req_id, req_id \in DOMAIN requirements,
           get_current_requirement(requirements, req_id))

GetImplementation(impl_id) ==
    Lookup("get_implementation", impl_id, impl_id \in DOMAIN implementations,
           get_implementation(implementations, impl_id))

SearchImplementations(query_embedding, n) ==
    \E results \in search_implementations(implementations, query_embedding, n) :
        Lookup("search_implementations", "", FALSE, Some(results))

GetImplementationsForRequirement(req_id) ==
    \E impls \in get_implementations_for_requirement(implementations, req_id) :
        Lookup("get_implementations_for_requirement", req_id,
               req_id \in DOMAIN requirements, Some(impls))

GetSpec(h, req_id) ==
    /\ h \in DOMAIN handles
    /\ Lookup("get_spec", req_id, dict_has(handles[h].specs, req_id),
              get_spec(handles[h], req_id))

\* ids that are looked up: the ones that get stored and one that never is
LookupReqIds == ReqIds \cup {"R9"}

LookupImplIds ==
    {generate_impl_id(file, lines) : file \in ImplFiles, lines \in ImplLines}
      \cup {"IMPL-404"}

LookupSpecIds == SpecReqIds \cup {"REQ-9"}

\* the writes of this specification: an active requirement, a supersede,
\* an implementation with at most one link, a spec
CallsAddRequirement ==
    \E id \in ReqIds :
        AddRequirement(
            Requirement(id, "ui", "Dashboard shows status", isoformat(1), None),
            <<0>>)

CallsLink ==
    \E file \in ImplFiles, lines \in ImplLines,
       satisfies \in {<<>>} \cup {<<l>> : l \in Links} :
        AddImplementation(
            Implementation(generate_impl_id(file, lines), file, lines,
                           "def render_dashboard(): pass",
                           generate_content_hash("def render_dashboard(): pass"),
                           isoformat(now), satisfies),
            <<0>>)

CallsAddSpec ==
    \E h \in Handles, id \in SpecReqIds :
        AddSpec(h, TestSpec(id, "Status is visible", None, FALSE))

CallsLookup ==
    \/ \E id \in LookupReqIds : GetRequirement(id)
    \/ \E id \in LookupReqIds : GetCurrentRequirement(id)
    \/ \E id \in LookupImplIds : GetImplementation(id)
    \/ \E k \in 1..MaxK : SearchImplementations(<<0>>, k)
    \/ \E id \in LookupReqIds : GetImplementationsForRequirement(id)
    \/ \E h \in Handles, id \in LookupSpecIds : GetSpec(h, id)

NextCalls ==
    \/ CallsAddRequirement
    \/ SupersedeAny
    \/ CallsLink
    \/ OpenStoreAny
    \/ CallsAddSpec
    \/ CallsLookup

SpecCalls == Init /\ [][NextCalls]_vars

(* --------------------------- privacy lookups --------------------------- *)

IsPrivate(h, req_id) ==
    /\ h \in DOMAIN handles
    /\ Lookup("is_private", req_id, dict_has(handles[h].specs, req_id),
              Some(is_private(handles[h], req_id)))

ListSpecs(h, include_private) ==
    /\ h \in DOMAIN handles
    /\ Lookup("list_specs", "", include_private,
              Some(list_specs(handles[h], include_private)))

\* PRIVATE.md rewritten by hand at any time, also after a store object has
\* read it
RewritePrivateFile(content) ==
    /\ private_file' = content
    /\ lastOp' = [id |-> "", op |-> "edit_private_file", existed |-> FALSE,
                  pre |-> None, arg |-> None, by |-> ""]
    /\ UNCHANGED <<storeVars, now, specs_file, handles>>

PrivacyAddSpec ==
    \E h \in Handles, id \in SpecReqIds, p \in BOOLEAN :
        AddSpec(h, TestSpec(id, "Status is visible", None, p))

PrivacyLookup ==
    \/ \E h \in Handles, id \in LookupSpecIds : IsPrivate(h, id)
    \/ \E h \in Handles, include_private \in BOOLEAN :
           ListSpecs(h, include_private)

NextPrivacy ==
    \/ \E content \in PrivateFiles : RewritePrivateFile(content)
    \/ OpenStoreAny
    \/ PrivacyAddSpec
    \/ MarkVerifiedAny
    \/ PrivacyLookup

SpecPrivacy == Init /\ [][NextPrivacy]_vars

(* ------------------------------ two writers ---------------------------- *)

\* two TestSpecStore objects on the same project directory
Writers == {"h1", "h2"}

WritersOpen == \E h \in Writers : OpenStore(h)

WritersAddSpec ==
    \E h \in Writers, id \in SpecReqIds :
        AddSpec(h, TestSpec(id, "Status is visible", None, FALSE))

WritersMarkVerified ==
    \E h \in Writers, id \in SpecReqIds : MarkVerified(h, id)

NextWriters == WritersOpen \/ WritersAddSpec \/ WritersMarkVerified

SpecWriters == Init /\ [][NextWriters]_vars

(* ------------------------------- properties ---------------------------- *)

\* C1. Supersession monotonicity: once the stored superseded_at of a
\* requirement id is non-null, it is non-null after every operation.
C1_SupersessionMonotonic ==
    [][\A id \in DOMAIN requirements :
          requirements[id].metadata["superseded_at"] # None
          => /\ id \in DOMAIN requirements'
             /\ requirements'[id].metadata["superseded_at"] # None]_vars

\* C2. Auto-detect exclusion: for every query vector and candidate count,
\* no auto-detect result holds a requirement whose stored superseded_at is
\* non-null.
C2_AutoDetectExcludesSuperseded ==
    \A q \in Vectors, k \in 1..MaxK :
        \A res \in auto_detect(requirements, q, k) :
            \A i \in 1..Len(res) :
                /\ res[i].id \in DOMAIN requirements
                /\ requirements[res[i].id].metadata["superseded_at"] = None

\* C2 witness: a superseded requirement ranks strictly nearer than an active
\* one, the search returns both, and auto-detect keeps only the active one.
C2_Witness ==
    \E q \in Vectors, a, b \in DOMAIN requirements :
        /\ requirements[a].metadata["superseded_at"] # None
        /\ requirements[b].metadata["superseded_at"] = None
        /\ Distance(requirements[a].embedding, q)
             < Distance(requirements[b].embedding, q)
        /\ \E results \in search_requirements(requirements, q, 2) :
               results[1].id = a /\ results[2].id = b
        /\ \E res \in auto_detect(requirements, q, 2) :
               Len(res) = 1 /\ res[1].id = b

\* C3. Auto-detect still finds the replacement: right after superseding an
\* active R1 while R2 is stored and active, every auto-detect result holds
\* R2, for every query vector and every candidate count k >= 1.
C3_AutoDetectFindsReplacement ==
    ( /\ lastOp.op = "supersede_requirement" /\ lastOp.id = "R1"
      /\ lastOp.pre # None
      /\ lastOp.pre[1].metadata["superseded_at"] = None
      /\ "R2" \in DOMAIN requirements
      /\ requirements["R2"].metadata["superseded_at"] = None )
    => \A q \in Vectors, k \in 1..MaxK :
          \A res \in auto_detect(requirements, q, k) :
              \E i \in 1..Len(res) : res[i].id = "R2"

\* C4. List filtering: list_requirements(False) holds exactly the stored
\* requirements whose superseded_at is null, list_requirements(True) holds
\* every stored requirement, each once and as stored, and the two differ
\* exactly in the superseded requirements.
C4_ListFiltering ==
    LET stored == DOMAIN requirements
        active == {id \in stored :
                      requirements[id].metadata["superseded_at"] = None}
        ids(lst) == {lst[i].id : i \in 1..Len(lst)}
        asStored(lst) ==
            \A i \in 1..Len(lst) :
                /\ lst[i].id \in stored
                /\ Requirement_to_dict(lst[i]) = requirements[lst[i].id].metadata
    IN  \A cur \in list_requirements(requirements, FALSE),
           all \in list_requirements(requirements, TRUE) :
            /\ ids(cur) = active /\ Len(cur) = Cardinality(active)
            /\ ids(all) = stored /\ Len(all) = Cardinality(stored)
            /\ asStored(cur) /\ asStored(all)
            /\ ids(all) \ ids(cur) = stored \ active

\* C4 witness: after a supersede, one active and one superseded requirement
\* are stored; the default listing holds the active one alone and the full
\* listing holds both.
C4_Witness ==
    /\ lastOp.op = "supersede_requirement"
    /\ \E a, b \in DOMAIN requirements :
          /\ requirements[a].metadata["superseded_at"] = None
          /\ Truthy(requirements[b].metadata["superseded_at"])
          /\ \E cur \in list_requirements(requirements, FALSE) :
                 Len(cur) = 1 /\ cur[1].id = a
          /\ \E all \in list_requirements(requirements, TRUE) : Len(all) = 2

\* C5. Drift round-trip: (1) right after an implementation is linked, the
\* drift check reports no drift for each of its links whose requirement was
\* active at link time; (2) right after supersede_requirement(R) on an active
\* R, the drift check of every stored implementation reports each of its
\* links to R; (3) and after the next operation it still reports that link,
\* as long as the implementation record is the same.
C5_DriftRoundTrip ==
    [][LET linksTo(impls, id, r) ==
               {i \in 1..Len(get_implementation(impls, id)[1].satisfies) :
                   get_implementation(impls, id)[1].satisfies[i].req_id = r}
           driftedOf(reqs, impls, id) == drift_check(reqs, impls, id)[1].links
       IN  /\ lastOp'.op = "add_implementation"
              => \A r \in DOMAIN requirements :
                    requirements[r].metadata["superseded_at"] = None
                    => linksTo(implementations', lastOp'.id, r)
                         \cap driftedOf(requirements', implementations',
                                        lastOp'.id) = {}
           /\ \A r \in DOMAIN requirements, id \in DOMAIN implementations :
                 ( /\ lastOp'.op = "supersede_requirement" /\ lastOp'.id = r
                   /\ requirements[r].metadata["superseded_at"] = None )
                 => linksTo(implementations', id, r)
                      \subseteq driftedOf(requirements', implementations', id)
           /\ \A r \in DOMAIN requirements, id \in DOMAIN implementations :
                 ( /\ lastOp.op = "supersede_requirement" /\ lastOp.id = r
                   /\ lastOp.pre # None
                   /\ lastOp.pre[1].metadata["superseded_at"] = None
                   /\ id \in DOMAIN implementations'
                   /\ implementations'[id] = implementations[id] )
                 => linksTo(implementations, id, r)
                      \subseteq driftedOf(requirements', implementations', id)
      ]_vars

\* C6. Drift check completeness: for every stored implementation the drift
\* check reports exactly the positions of its satisfies list whose req_id is
\* absent from the requirement collection or whose stored superseded_at is
\* non-null, and marks the implementation drifted iff there is one.
C6_DriftCheckComplete ==
    \A id \in DOMAIN implementations :
        LET satisfies == get_implementation(implementations, id)[1].satisfies
            expected ==
                {i \in 1..Len(satisfies) :
                    \/ satisfies[i].req_id \notin DOMAIN requirements
                    \/ requirements[satisfies[i].req_id]
                          .metadata["superseded_at"] # None}
            report == drift_check(requirements, implementations, id)
        IN  /\ report # None
            /\ report[1].links = expected
            /\ report[1].drifted <=> (expected # {})

\* C6 witness: one implementation links a missing requirement and then a
\* superseded one, and both links are reported; another implementation
\* has no links and is not drifted.
C6_Witness ==
    \E id, other \in DOMAIN implementations :
        LET satisfies == get_implementation(implementations, id)[1].satisfies
        IN  /\ Len(satisfies) = 2
            /\ satisfies[1].req_id \notin DOMAIN requirements
            /\ satisfies[2].req_id \in DOMAIN requirements
            /\ requirements[satisfies[2].req_id].metadata["superseded_at"]
                 # None
            /\ drift_check(requirements, implementations, id)
                 = Some([links |-> {1, 2}, drifted |-> TRUE])
            /\ other # id
            /\ Len(get_implementation(implementations, other)[1].satisfies) = 0
            /\ drift_check(requirements, implementations, other)
                 = Some([links |-> {}, drifted |-> FALSE])

\* C7. supersede_requirement(id) is a silent no-op when id is absent or
\* already superseded (its stored superseded_at is non-null): it creates no
\* record and leaves both collections unchanged, so a second supersede keeps
\* the superseded_at written by the first.
C7_SupersedeNoOp ==
    [][\A id \in ReqIds :
          ( /\ lastOp'.op = "supersede_requirement" /\ lastOp'.id = id
            /\ \/ id \notin DOMAIN requirements
               \/ requirements[id].metadata["superseded_at"] # None )
          => /\ requirements' = requirements
             /\ implementations' = implementations]_vars

\* C8. supersede_requirement(id) on an active requirement changes metadata
\* only: the collection holds the same ids, the record of id keeps its
\* embedding, document and every metadata field but superseded_at, which
\* becomes non-null, and every other record is unchanged.
C8_SupersedeMetadataOnly ==
    [][\A id \in ReqIds :
          ( /\ lastOp'.op = "supersede_requirement" /\ lastOp'.id = id
            /\ id \in DOMAIN requirements
            /\ requirements[id].metadata["superseded_at"] = None )
          => /\ DOMAIN requirements' = DOMAIN requirements
             /\ requirements'[id].embedding = requirements[id].embedding
             /\ requirements'[id].document = requirements[id].document
             /\ DOMAIN requirements'[id].metadata
                  = DOMAIN requirements[id].metadata
             /\ \A k \in DOMAIN requirements[id].metadata \ {"superseded_at"} :
                   requirements'[id].metadata[k] = requirements[id].metadata[k]
             /\ requirements'[id].metadata["superseded_at"] # None
             /\ \A o \in DOMAIN requirements \ {id} :
                   requirements'[o] = requirements[o]]_vars

\* C8 witness: an active requirement with embedding <<1>> was superseded
\* while a second requirement was stored; it now carries the timestamp.
C8_Witness ==
    /\ lastOp.op = "supersede_requirement"
    /\ lastOp.pre # None
    /\ lastOp.pre[1].metadata["superseded_at"] = None
    /\ lastOp.pre[1].embedding = <<1>>
    /\ Cardinality(DOMAIN requirements) = 2
    /\ requirements[lastOp.id].metadata["superseded_at"]
         = Some(isoformat(now))
    /\ requirements[lastOp.id].embedding = <<1>>

\* C9. get_current_requirement(id) returns the stored record when it exists
\* and its superseded_at is null and None otherwise; get_requirement(id)
\* returns the stored record whatever its status, None when absent.
C9_GetCurrentVsGet ==
    \A id \in ReqIds :
        LET got == get_requirement(requirements, id)
            cur == get_current_requirement(requirements, id)
        IN  IF id \in DOMAIN requirements
            THEN /\ got # None
                 /\ Requirement_to_dict(got[1]) = requirements[id].metadata
                 /\ IF requirements[id].metadata["superseded_at"] = None
                    THEN cur # None
                         /\ Requirement_to_dict(cur[1]) = requirements[id].metadata
                    ELSE cur = None
            ELSE got = None /\ cur = None

\* C9 witness: one id is absent, the other is stored and superseded:
\* get_requirement returns it, get_current_requirement returns None.
C9_Witness ==
    \E id, other \in ReqIds :
        /\ other \notin DOMAIN requirements
        /\ get_requirement(requirements, other) = None
        /\ id \in DOMAIN requirements
        /\ requirements[id].metadata["superseded_at"] # None
        /\ get_requirement(requirements, id) # None
        /\ get_requirement(requirements, id)[1].superseded_at # None
        /\ get_current_requirement(requirements, id) = None

\* C10. Idempotent re-link: the id of every stored implementation is
\* generate_impl_id of its own file and lines, so no two stored records
\* share a location; after add_implementation the collection holds the id
\* once and get_implementation returns the record just written (content,
\* content_hash and satisfies of the last write).
C10_IdempotentRelink ==
    /\ \A a \in DOMAIN implementations :
          a = generate_impl_id(implementations[a].metadata.file,
                               implementations[a].metadata.lines)
    /\ \A a, b \in DOMAIN implementations :
          ( /\ implementations[a].metadata.file
                 = implementations[b].metadata.file
            /\ implementations[a].metadata.lines
                 = implementations[b].metadata.lines )
          => a = b
    /\ lastOp.op = "add_implementation"
       => /\ lastOp.id
               = generate_impl_id(lastOp.arg[1].file, lastOp.arg[1].lines)
          /\ get_implementation(implementations, lastOp.id) = lastOp.arg
          /\ implementations[lastOp.id].document = lastOp.arg[1].content
          /\ \A s \in get_all(implementations) :
                Cardinality({i \in 1..Len(s) : s[i] = lastOp.id}) = 1

\* C10 witness: a location was linked a second time with another content
\* and no links, while the other location is stored too; the record of the
\* id now holds the second content.
C10_Witness ==
    /\ lastOp.op = "add_implementation"
    /\ lastOp.existed
    /\ lastOp.pre # Some(lastOp.arg[1].content)
    /\ Cardinality(DOMAIN implementations) = 2
    /\ get_implementation(implementations, lastOp.id)[1].content
         = lastOp.arg[1].content
    /\ get_implementation(implementations, lastOp.id)[1].satisfies = <<>>

\* C12. search_requirements(vector, k) ranks over every stored requirement,
\* active and superseded alike: each result list holds min(k, number stored)
\* distinct stored ids in ascending distance to the vector, no stored id left
\* out is nearer than one returned, and each result carries the stored
\* record, a superseded one with its non-null superseded_at.
C12_SearchRanksAll ==
    \A q \in Vectors, k \in 1..MaxK :
        LET results == search_requirements(requirements, q, k)
            d(id) == Distance(requirements[id].embedding, q)
        IN  /\ results # {}
            /\ \A res \in results :
                  LET ids == {res[i].id : i \in 1..Len(res)}
                  IN  /\ Len(res) = Min(k, Cardinality(DOMAIN requirements))
                      /\ ids \subseteq DOMAIN requirements
                      /\ Cardinality(ids) = Len(res)
                      /\ \A i \in 1..Len(res) :
                            /\ res[i].distance = d(res[i].id)
                            /\ Requirement_to_dict(res[i].requirement)
                                 = requirements[res[i].id].metadata
                            /\ requirements[res[i].id].metadata["superseded_at"]
                                 # None
                               => res[i].requirement.superseded_at # None
                      /\ \A i, j \in 1..Len(res) :
                            i < j => res[i].distance <= res[j].distance
                      /\ \A x \in DOMAIN requirements \ ids :
                            \A i \in 1..Len(res) : res[i].distance <= d(x)

\* C12 witness: a superseded requirement is strictly nearer to the vector
\* than an active one; with k = 1 the search returns the superseded one
\* alone, with k = 3 it returns both stored records, the superseded first.
C12_Witness ==
    \E q \in Vectors, a, b \in DOMAIN requirements :
        /\ Truthy(requirements[a].metadata["superseded_at"])
        /\ requirements[b].metadata["superseded_at"] = None
        /\ Distance(requirements[a].embedding, q)
             < Distance(requirements[b].embedding, q)
        /\ \A res \in search_requirements(requirements, q, 1) :
              /\ Len(res) = 1 /\ res[1].id = a
              /\ res[1].requirement.superseded_at
                   = requirements[a].metadata["superseded_at"]
        /\ \A res \in search_requirements(requirements, q, 3) :
              Len(res) = 2 /\ res[1].id = a /\ res[2].id = b

\* C14. add_requirement is an upsert by id with full replace: right after
\* add_requirement(r, v), get_requirement(r.id) equals r in every field and
\* the stored embedding, metadata and document are those of the call,
\* whatever was stored under the id before; adding the same (r, v) a second
\* time leaves the collection as after the first; no listing of the
\* collection holds an id twice.
C14_AddRequirementUpsert ==
    /\ lastOp.op = "add_requirement"
       => /\ get_requirement(requirements, lastOp.id) = lastOp.arg
          /\ lastOp.arg[1].id = lastOp.id
          /\ requirements[lastOp.id].metadata
               = Requirement_to_dict(lastOp.arg[1])
          /\ requirements[lastOp.id].document = lastOp.arg[1].value
    /\ \A id \in ReqIds, dom \in Domains, val \in Values, e \in Vectors,
          sup \in SupersededAtInputs(now) :
          LET r == Requirement(id, dom, val, isoformat(now), sup)
              once == add_requirement(requirements, r, e)
          IN  /\ add_requirement(once, r, e) = once
              /\ get_requirement(once, id) = Some(r)
              /\ once[id].embedding = e
              /\ \A o \in DOMAIN requirements \ {id} : once[o] = requirements[o]
              /\ DOMAIN once = DOMAIN requirements \cup {id}
    /\ \A s \in get_all(requirements) :
          \A id \in DOMAIN requirements :
              Cardinality({i \in 1..Len(s) : s[i] = id}) = 1
    /\ \A all \in list_requirements(requirements, TRUE) :
          Len(all) = Cardinality(DOMAIN requirements)

\* C14 witness: an id stored with one value was added again with the other
\* value and superseded_at None; the record read back is the second one and
\* the other stored id is still there.
C14_Witness ==
    /\ lastOp.op = "add_requirement"
    /\ lastOp.existed
    /\ lastOp.pre # Some(lastOp.arg[1].value)
    /\ lastOp.arg[1].superseded_at = None
    /\ get_requirement(requirements, lastOp.id) = lastOp.arg
    /\ requirements[lastOp.id].document = lastOp.arg[1].value
    /\ Cardinality(DOMAIN requirements) = 2

\* C13. get_implementations_for_requirement(req_id) returns exactly the
\* stored implementations whose stored satisfies text holds at least one
\* link with that req_id: each of them once, also when several of its links
\* carry the req_id, each as get_implementation returns it, and the empty
\* list when no stored implementation links the req_id.
C13_ReverseLookupExact ==
    \A r \in ReqIds \cup {"R9"} :
        LET linking ==
                {id \in DOMAIN implementations :
                    LET text == implementations[id].metadata.satisfies
                    IN  \E j \in 1..(Len(text) - 2) :
                            /\ text[j] = "req_id" /\ text[j + 1] = ":"
                            /\ text[j + 2] = r}
            results == get_implementations_for_requirement(implementations, r)
        IN  /\ results # {}
            /\ \A res \in results :
                  /\ {res[i].id : i \in 1..Len(res)} = linking
                  /\ Len(res) = Cardinality(linking)
                  /\ \A i \in 1..Len(res) :
                        Some(res[i])
                          = get_implementation(implementations, res[i].id)
                  /\ linking = {} => res = <<>>

\* C13 witness: one stored implementation links R1 twice and is returned
\* once for R1; the other stored implementation links R2 only, so it is the
\* whole result for R2 and absent from the result for R1; nothing links R9.
C13_Witness ==
    \E a, b \in DOMAIN implementations :
        /\ a # b
        /\ get_implementation(implementations, a)[1].satisfies
             = <<Link("R1", "v1"), Link("R1", "v1")>>
        /\ get_implementation(implementations, b)[1].satisfies
             = <<Link("R2", "v2")>>
        /\ \A res \in get_implementations_for_requirement(implementations,
                                                           "R1") :
              Len(res) = 1 /\ res[1].id = a
        /\ \A res \in get_implementations_for_requirement(implementations,
                                                           "R2") :
              Len(res) = 1 /\ res[1].id = b
        /\ get_implementations_for_requirement(implementations, "R9")
             = {<<>>}

\* C15. The satisfies list round-trips through storage: right after
\* add_implementation the list read back by get_implementation is the list
\* passed in (same links, same order, req_id and req_version unchanged, for
\* empty, single, several and repeated links); for every stored
\* implementation the list read back spells the stored text, and
\* search_implementations and get_implementations_for_requirement return
\* the same list as get_implementation.
C15_SatisfiesRoundTrip ==
    /\ lastOp.op = "add_implementation"
       => LET back == get_implementation(implementations, lastOp.id)
              sent == lastOp.arg[1].satisfies
          IN  /\ back # None
              /\ Len(back[1].satisfies) = Len(sent)
              /\ \A i \in 1..Len(sent) :
                    /\ back[1].satisfies[i]["req_id"] = sent[i].req_id
                    /\ back[1].satisfies[i]["req_version"]
                         = sent[i].req_version
                    /\ DOMAIN back[1].satisfies[i]
                         = {"req_id", "req_version"}
    /\ LET satisfies ==
              [id \in DOMAIN implementations |->
                  get_implementation(implementations, id)[1].satisfies]
       IN  /\ \A id \in DOMAIN implementations :
                 json_dumps(satisfies[id])
                   = implementations[id].metadata.satisfies
           /\ \A q \in Vectors, k \in 1..MaxK :
                 \A res \in search_implementations(implementations, q, k) :
                     \A i \in 1..Len(res) :
                         res[i].implementation.satisfies = satisfies[res[i].id]
           /\ \A r \in ReqIds :
                 \A res \in get_implementations_for_requirement(
                                 implementations, r) :
                     \A i \in 1..Len(res) :
                         res[i].satisfies = satisfies[res[i].id]

\* C15 witness: the implementation just added carries the links R2, R1 in
\* that order and the other stored implementation carries the same link
\* twice; both lists come back as written through get_implementation, a
\* search and the reverse lookup.
C15_Witness ==
    /\ lastOp.op = "add_implementation"
    /\ lastOp.arg[1].satisfies = <<Link("R2", "v2"), Link("R1", "v1")>>
    /\ get_implementation(implementations, lastOp.id)[1].satisfies
         = <<Link("R2", "v2"), Link("R1", "v1")>>
    /\ \E other \in DOMAIN implementations \ {lastOp.id} :
          /\ get_implementation(implementations, other)[1].satisfies
               = <<Link("R1", "v1"), Link("R1", "v1")>>
          /\ \A res \in search_implementations(implementations, <<0>>, 2) :
                /\ Len(res) = 2
                /\ \A i \in 1..2 :
                      res[i].implementation.satisfies
                        = IF res[i].id = other
                          THEN <<Link("R1", "v1"), Link("R1", "v1")>>
                          ELSE <<Link("R2", "v2"), Link("R1", "v1")>>
          /\ \A res \in get_implementations_for_requirement(
                             implementations, "R2") :
                /\ Len(res) = 1
                /\ res[1].satisfies = <<Link("R2", "v2"), Link("R1", "v1")>>

\* C11. Privacy OR-semantics: the private-id set of a store object is the
\* set of ids listed by PRIVATE.md (lines "- REQ-..", "* REQ-..", "REQ-..",
\* trailing ':' and ',' dropped; empty when the file is absent), and
\* is_private(id) is true iff id is in that set or a spec stored for id has
\* private = true; an id in neither, also one with no spec, is public.
C11_PrivacyOr ==
    \A h \in DOMAIN handles :
        LET self == handles[h]
            listed ==
                IF private_file = None THEN {}
                ELSE {rstrip(private_file[1][i]) :
                        i \in {j \in 1..Len(private_file[1]) :
                                 /\ private_file[1][j].head = "REQ-"
                                 /\ private_file[1][j].bullet
                                      \in {"- ", "* ", ""}}}
        IN  /\ self.private_ids = listed
            /\ \A id \in SpecReqIds \cup {"REQ-9"} :
                  LET flagged == \E i \in 1..Len(self.specs) :
                                    /\ self.specs[i].key = id
                                    /\ self.specs[i].value.private
                  IN  /\ is_private(self, id) <=> (id \in listed \/ flagged)
                      /\ (id \notin listed /\ ~dict_has(self.specs, id))
                         => ~is_private(self, id)

\* C11 witness: REQ-1 is listed by PRIVATE.md and its stored spec has
\* private = false, REQ-2 is not listed and its stored spec has private =
\* true: both are private; REQ-9 is neither listed nor stored: public.
C11_Witness ==
    \E h \in DOMAIN handles :
        /\ handles[h].private_ids = {"REQ-1"}
        /\ get_spec(handles[h], "REQ-1") # None
        /\ ~get_spec(handles[h], "REQ-1")[1].private
        /\ is_private(handles[h], "REQ-1")
        /\ get_spec(handles[h], "REQ-2") # None
        /\ get_spec(handles[h], "REQ-2")[1].private
        /\ is_private(handles[h], "REQ-2")
        /\ get_spec(handles[h], "REQ-9") = None
        /\ ~is_private(handles[h], "REQ-9")

\* C16. Test specs are keyed by req_id, last write wins: add_spec(spec)
\* makes get_spec(spec.req_id) return that spec and leaves the spec of every
\* other req_id as it was; a req_id gets a spec by add_spec only, so
\* get_spec returns None for an id no add_spec was made for, and no other
\* call changes which ids hold a spec; list_specs() holds exactly one spec
\* per req_id added, the one get_spec returns.
C16_SpecLastWriteWins ==
    [][\A h \in (DOMAIN handles) \cap (DOMAIN handles') :
          LET keys(self) == {self.specs[i].key : i \in 1..Len(self.specs)}
              old == handles[h]
              new == handles'[h]
              all == list_specs(new, TRUE)
          IN  /\ lastOp'.op = "add_spec"
                 => /\ get_spec(new, lastOp'.id) = lastOp'.arg
                    /\ lastOp'.arg[1].req_id = lastOp'.id
                    /\ keys(new) = keys(old) \cup {lastOp'.id}
                    /\ \A id \in keys(old) \ {lastOp'.id} :
                          get_spec(new, id) = get_spec(old, id)
              /\ lastOp'.op # "add_spec" => keys(new) = keys(old)
              /\ \A id \in (SpecReqIds \cup {"REQ-9"}) \ keys(new) :
                    get_spec(new, id) = None
              /\ Len(all) = Cardinality(keys(new))
              /\ {all[i].req_id : i \in 1..Len(all)} = keys(new)
              /\ \A i \in 1..Len(all) :
                    Some(all[i]) = get_spec(new, all[i].req_id)
      ]_vars

\* C16 witness: a spec was added for a req_id that held a spec with the other
\* description; get_spec returns the new one, list_specs holds two specs,
\* one per req_id added, and REQ-9, never added, has none.
C16_Witness ==
    \E h \in DOMAIN handles :
        /\ lastOp.op = "add_spec"
        /\ lastOp.existed
        /\ lastOp.pre # Some(lastOp.arg[1].description)
        /\ get_spec(handles[h], lastOp.id) = lastOp.arg
        /\ Len(list_specs(handles[h], TRUE)) = 2
        /\ \E i \in 1..2 : Some(list_specs(handles[h], TRUE)[i]) = lastOp.arg
        /\ get_spec(handles[h], "REQ-9") = None

\* C17. last_verified is set by mark_verified only: between two consecutive
\* states the last_verified of the spec stored for a req_id changes only
\* when the call made is mark_verified of that req_id, and a spec newly
\* stored comes with last_verified null; add_spec never sets, changes or
\* clears it.
C17_LastVerifiedOnlyByMark ==
    [][\A h \in (DOMAIN handles) \cap (DOMAIN handles') :
          \A id \in SpecReqIds :
              LET old == get_spec(handles[h], id)
                  new == get_spec(handles'[h], id)
                  oldValue == IF old = None THEN None ELSE old[1].last_verified
                  newValue == IF new = None THEN None ELSE new[1].last_verified
              IN  oldValue # newValue
                  => lastOp'.op = "mark_verified" /\ lastOp'.id = id
      ]_vars

\* C18. The implementation registry never mutates requirements: a step of
\* add_implementation, get_implementation, search_implementations or
\* get_implementations_for_requirement leaves the requirement collection as
\* it was, also when the implementation links a req_id that is not stored.
C18_ImplementationsLeaveRequirements ==
    [][lastOp'.op \in {"add_implementation", "get_implementation",
                       "search_implementations",
                       "get_implementations_for_requirement"}
       => requirements' = requirements]_vars

\* C18 witness: an implementation linking R2 was added while only R1 is
\* stored; R2 is still not stored and the link is stored as written.
C18_Witness ==
    /\ lastOp.op = "add_implementation"
    /\ lastOp.arg[1].satisfies = <<Link("R2", "v2")>>
    /\ DOMAIN requirements = {"R1"}
    /\ get_implementation(implementations, lastOp.id)[1].satisfies
         = <<Link("R2", "v2")>>

\* C19. Drift is computed, never stored: a supersede_requirement step leaves
\* every implementation record as it was; when the requirement was active,
\* each implementation linking it is reported drifted by the drift check
\* right after the step, from the requirement's superseded_at alone.
C19_DriftNotStored ==
    [][\A r \in ReqIds :
          (lastOp'.op = "supersede_requirement" /\ lastOp'.id = r)
          => /\ implementations' = implementations
             /\ ( r \in DOMAIN requirements
                  /\ requirements[r].metadata["superseded_at"] = None )
                => \A id \in DOMAIN implementations :
                      (\E i \in 1..Len(get_implementation(implementations,
                                                         id)[1].satisfies) :
                          get_implementation(implementations, id)[1]
                             .satisfies[i].req_id = r)
                      => /\ implementations'[id] = implementations[id]
                         /\ drift_check(requirements', implementations', id)[1]
                               .drifted]_vars

\* C19 witness: an active requirement was superseded while an
\* implementation links it and no other; the implementation is reported
\* drifted and the other stored implementation, with no links, is not.
C19_Witness ==
    /\ lastOp.op = "supersede_requirement"
    /\ lastOp.pre # None
    /\ lastOp.pre[1].metadata["superseded_at"] = None
    /\ \E id, other \in DOMAIN implementations :
          /\ get_implementation(implementations, id)[1].satisfies
               = <<Link(lastOp.id, IF lastOp.id = "R1" THEN "v1" ELSE "v2")>>
          /\ drift_check(requirements, implementations, id)
               = Some([links |-> {1}, drifted |-> TRUE])
          /\ get_implementation(implementations, other)[1].satisfies = <<>>
          /\ drift_check(requirements, implementations, other)
               = Some([links |-> {}, drifted |-> FALSE])

\* C20. Not-found is a normal outcome: get_requirement,
\* get_current_requirement, get_implementation and get_spec of an id that
\* is not stored return None, and the step leaves both collections, the
\* spec file, PRIVATE.md and the store objects as they were.
C20_NotFoundIsNone ==
    [][( /\ lastOp'.op \in {"get_requirement", "get_current_requirement",
                            "get_implementation", "get_spec"}
         /\ ~lastOp'.existed )
       => /\ lastOp'.arg = None
          /\ requirements' = requirements
          /\ implementations' = implementations
          /\ specs_file' = specs_file
          /\ private_file' = private_file
          /\ handles' = handles]_vars

\* C20 witness: with a requirement, an implementation and a spec stored,
\* get_spec of REQ-9, which was never added, returned None, and REQ-9 is
\* still in neither the store object nor the file.
C20_Witness ==
    /\ lastOp.op = "get_spec"
    /\ lastOp.id = "REQ-9"
    /\ ~lastOp.existed
    /\ lastOp.arg = None
    /\ requirements # <<>>
    /\ implementations # <<>>
    /\ \E h \in DOMAIN handles :
          /\ Len(handles[h].specs) > 0
          /\ ~dict_has(handles[h].specs, "REQ-9")
          /\ specs_file = save(handles[h])

\* C21. The requirement index never shrinks: every step keeps every stored
\* requirement id, and after the step a search with k at least the number
\* of stored requirements returns every stored id, superseded or not, for
\* every query vector.
C21_IndexNeverShrinks ==
    [][/\ DOMAIN requirements \subseteq DOMAIN requirements'
       /\ \A q \in Vectors, k \in 1..MaxK :
             k >= Cardinality(DOMAIN requirements')
             => \A res \in search_requirements(requirements', q, k) :
                   {res[i].id : i \in 1..Len(res)} = DOMAIN requirements'
      ]_vars

\* C21 witness: right after an active requirement was superseded, two
\* requirements are stored, and a search with k = 2 returns both, the one
\* just superseded included.
C21_Witness ==
    /\ lastOp.op = "supersede_requirement"
    /\ lastOp.pre # None
    /\ lastOp.pre[1].metadata["superseded_at"] = None
    /\ Cardinality(DOMAIN requirements) = 2
    /\ requirements[lastOp.id].metadata["superseded_at"] # None
    /\ \A q \in Vectors :
          \A res \in search_requirements(requirements, q, 2) :
              /\ Len(res) = 2
              /\ \E i \in 1..2 :
                    /\ res[i].id = lastOp.id
                    /\ res[i].requirement.superseded_at # None

\* C22. Spec persistence round-trip: right after add_spec, and after
\* mark_verified of a req_id that holds a spec, the spec file exists and
\* holds one JSON object per stored spec, under the same keys, each decoding
\* to the stored spec, so a TestSpecStore constructed now returns the same
\* get_spec result for every id; while there is no spec file, a constructed
\* store holds no spec.
C22_SpecFileRoundTrip ==
    /\ \A h \in DOMAIN handles :
          ( \/ lastOp.op = "add_spec"
            \/ lastOp.op = "mark_verified" /\ lastOp.existed )
          => /\ specs_file # None
             /\ Len(specs_file[1]) = Len(handles[h].specs)
             /\ \A i \in 1..Len(specs_file[1]) :
                   /\ specs_file[1][i].key = handles[h].specs[i].key
                   /\ TestSpec_from_dict(specs_file[1][i].value)
                        = handles[h].specs[i].value
             /\ LET fresh == TestSpecStore_init(specs_file, private_file)
                IN  \A id \in SpecReqIds \cup {"REQ-9"} :
                        get_spec(fresh, id) = get_spec(handles[h], id)
    /\ specs_file = None
       => /\ TestSpecStore_init(specs_file, private_file).specs = <<>>
          /\ \A h \in DOMAIN handles : handles[h].specs = <<>>

\* C22 witness: mark_verified was just made on a stored spec while a second
\* spec, flagged private, is stored too; a store constructed from the file
\* returns both, the first with the new last_verified.
C22_Witness ==
    \E h \in DOMAIN handles :
        /\ lastOp.op = "mark_verified"
        /\ lastOp.existed
        /\ Len(handles[h].specs) = 2
        /\ \E i \in 1..2 : handles[h].specs[i].value.private
        /\ LET fresh == TestSpecStore_init(specs_file, private_file)
           IN  /\ get_spec(fresh, lastOp.id) # None
               /\ get_spec(fresh, lastOp.id)[1].last_verified
                    = Some(isoformat(now))
               /\ fresh.specs = handles[h].specs

\* C23. The two privacy sources are never merged into the record: on an
\* add_spec step the private field stored for the req_id, in memory and in
\* the spec file, is the value passed, also when the req_id is in the
\* private-id set; on every other step (mark_verified, is_private,
\* list_specs, a rewrite of PRIVATE.md, a store constructed again) the
\* private field stored for each req_id stays as it was; every private field
\* in the file is the one in memory when the file is written; and the
\* private-id set of a store object changes on no step after construction.
C23_PrivacySourcesNotMerged ==
    [][\A h \in (DOMAIN handles) \cap (DOMAIN handles') :
          LET old == handles[h]
              new == handles'[h]
              privateOf(self, id) ==
                  IF get_spec(self, id) = None THEN None
                  ELSE Some(get_spec(self, id)[1].private)
          IN  /\ lastOp'.op # "open" => new.private_ids = old.private_ids
              /\ \A id \in SpecReqIds :
                    IF lastOp'.op = "add_spec" /\ lastOp'.id = id
                    THEN privateOf(new, id) = Some(lastOp'.arg[1].private)
                    ELSE privateOf(new, id) = privateOf(old, id)
              /\ specs_file' # specs_file
                 => /\ Len(specs_file'[1]) = Len(new.specs)
                    /\ \A i \in 1..Len(specs_file'[1]) :
                          /\ specs_file'[1][i].key = new.specs[i].key
                          /\ specs_file'[1][i].value.private
                               = JsonBool(new.specs[i].value.private)
      ]_vars

\* C23 witness: a spec with private = false was just added for REQ-1 while
\* REQ-1 is in the private-id set; the stored spec and the file both say
\* private = false, and is_private(REQ-1) is true.
C23_Witness ==
    \E h \in DOMAIN handles :
        /\ lastOp.op = "add_spec"
        /\ lastOp.id = "REQ-1"
        /\ ~lastOp.arg[1].private
        /\ "REQ-1" \in handles[h].private_ids
        /\ ~get_spec(handles[h], "REQ-1")[1].private
        /\ \E i \in 1..Len(specs_file[1]) :
              /\ specs_file[1][i].key = "REQ-1"
              /\ specs_file[1][i].value.private = JsonBool(FALSE)
        /\ is_private(handles[h], "REQ-1")

\* C24. Last write wins on the spec file with two writers: on every step
\* that writes the file (add_spec, or mark_verified of a req_id the object
\* holds) the file holds exactly the specs of the object that made the call,
\* whatever the file held and whatever the other object holds; the other
\* object is left as it was, and a req_id the writer does not hold is
\* absent from the file, also when the other object added it.
C24_TwoWritersLastWriteWins ==
    [][( \/ lastOp'.op = "add_spec"
         \/ lastOp'.op = "mark_verified" /\ lastOp'.existed )
       => LET writer == handles'[lastOp'.by]
              inFile == {specs_file'[1][i].key : i \in 1..Len(specs_file'[1])}
          IN  /\ specs_file' # None
              /\ Len(specs_file'[1]) = Len(writer.specs)
              /\ \A i \in 1..Len(specs_file'[1]) :
                    /\ specs_file'[1][i].key = writer.specs[i].key
                    /\ TestSpec_from_dict(specs_file'[1][i].value)
                         = writer.specs[i].value
              /\ \A o \in (DOMAIN handles) \ {lastOp'.by} :
                    /\ handles'[o] = handles[o]
                    /\ \A id \in SpecReqIds :
                          ( dict_has(handles[o].specs, id)
                            /\ ~dict_has(writer.specs, id) )
                          => id \notin inFile
      ]_vars

\* C24 witness: both objects were constructed on the empty directory, the
\* other one added REQ-2 and the file held it; then this one added REQ-1:
\* the file now holds REQ-1 alone, the other object still holds REQ-2.
C24_Witness ==
    \E w, o \in DOMAIN handles :
        /\ w # o
        /\ lastOp.op = "add_spec" /\ lastOp.by = w /\ lastOp.id = "REQ-1"
        /\ get_spec(handles[o], "REQ-2") # None
        /\ get_spec(handles[o], "REQ-1") = None
        /\ get_spec(handles[w], "REQ-2") = None
        /\ specs_file = save(handles[w])
        /\ Len(specs_file[1]) = 1
        /\ specs_file[1][1].key = "REQ-1"

\* C25. One notion of active: for every stored requirement id,
\* supersede_requirement(id) changes the collection iff
\* get_current_requirement(id) returns the record and every
\* list_requirements(include_superseded = False) holds it, whatever
\* superseded_at was stored (null, a timestamp or the empty string).
C25_OneNotionOfActive ==
    \A id \in DOMAIN requirements :
        LET changes == supersede_requirement(requirements, id, now)
                         # requirements
            current == get_current_requirement(requirements, id) # None
            listed == \A cur \in list_requirements(requirements, FALSE) :
                          \E i \in 1..Len(cur) : cur[i].id = id
        IN  /\ changes <=> current
            /\ changes <=> listed

\* C26. list_specs agrees with is_private: list_specs(include_private =
\* False) holds exactly the stored specs s with is_private(s.req_id) false,
\* each once and as stored, and list_specs(include_private = True) holds
\* every stored spec, each once and as stored.
C26_ListSpecsAgreesWithIsPrivate ==
    \A h \in DOMAIN handles :
        LET self == handles[h]
            stored == {self.specs[i].value : i \in 1..Len(self.specs)}
            public == {s \in stored : ~is_private(self, s.req_id)}
            shown == list_specs(self, FALSE)
            all == list_specs(self, TRUE)
        IN  /\ {shown[i] : i \in 1..Len(shown)} = public
            /\ Len(shown) = Cardinality(public)
            /\ {all[i] : i \in 1..Len(all)} = stored
            /\ Len(all) = Len(self.specs)

\* C26 witness: two specs with private = false are stored and PRIVATE.md
\* lists one of them: the public listing holds the other alone, the full
\* listing holds both.
C26_Witness ==
    \E h \in DOMAIN handles :
        /\ handles[h].private_ids = {"REQ-1"}
        /\ Len(handles[h].specs) = 2
        /\ \A i \in 1..2 : ~handles[h].specs[i].value.private
        /\ is_private(handles[h], "REQ-1")
        /\ Len(list_specs(handles[h], FALSE)) = 1
        /\ list_specs(handles[h], FALSE)[1].req_id = "REQ-2"
        /\ Len(list_specs(handles[h], TRUE)) = 2

====
